---- MODULE Spec2Model ----
(***************************************************************************)
(* Store-eligibility filters of the placement scheduler (package filter):  *)
(* the selection functions SelectSourceStores / SelectTargetStores /       *)
(* SelectUnavailableTargetStores, the StoreStateFilter condition engine,   *)
(* the distinctScoreFilter and the rule-fit filters.                       *)
(*                                                                         *)
(* A Go function with side effects is an operator that takes the objects   *)
(* it may write and returns them with its result.                          *)
(***************************************************************************)
EXTENDS Integers, Sequences, FiniteSets, TLC

VARIABLES
    \* ---- one selection call (Spec) ----
    counter,        \* the *Counter argument: [present, incs]
    filterCounter,  \* the package-level metric filterCounter: increments, in order
    collector,      \* the *plan.Collector argument: [present, records]
    selOp,          \* which selection function ran: "none" before the call
    selStores,      \* its stores argument
    selFilters,     \* its filters argument, as passed
    selAfter,       \* the filter instances after the call (Reason is written)
    selResult,      \* the list it returned
    selCalls,       \* every Source/Target call it made, in order
    selPrior,       \* number of increments held before the call, per sink
    \* ---- one StoreStateFilter instance (SpecState) ----
    ssf,            \* the filter: switches and Reason
    ssOpt,          \* the options it is called with
    ssCall,         \* the last Source/Target call: direction, store, status, conditions run
    \* ---- the comparing filters (SpecCmp) ----
    dsf,            \* the distinctScoreFilter, or NoFilter
    rff,            \* the ruleFitFilter, or NoFilter
    rlf,            \* the ruleLeaderFitFilter, or NoFilter
    region,         \* the region the rule-fit filters were built for
    fitCalls,       \* FitRegion calls made so far, per filter
    cmpArgs,        \* what each constructor was called with
    cmpCall,        \* the last Source/Target call on a comparing filter
    \* ---- the isolationFilter and the specialUseFilter (SpecPlain) ----
    plf,            \* the filter built, NoFilter before, Panicked if the constructor panicked
    plArgs,         \* what the constructor was called with
    plCall,         \* the Source/Target call made on it
    \* ---- one StoreStateFilter shared by two goroutines (SpecRace) ----
    raceF,          \* the shared instance
    raceProc        \* per goroutine: the store, the position in Target, what it got

selVars == <<counter, filterCounter, collector, selOp, selStores, selFilters,
             selAfter, selResult, selCalls, selPrior>>
ssVars  == <<ssf, ssOpt, ssCall>>
cmpVars == <<dsf, rff, rlf, region, fitCalls, cmpArgs, cmpCall>>
plainVars == <<plf, plArgs, plCall>>
raceVars  == <<raceF, raceProc>>
vars    == <<selVars, ssVars, cmpVars, plainVars, raceVars>>

---------------------------------------------------------------------------
(* Bounds of the model. *)

\* longest candidate store list handed to a selection function
MaxStores == 2
\* longest filter chain handed to a selection function
MaxFilters == 2
\* most abnormal attributes a store carries at once
MaxFaults == 2
\* Source/Target calls made on one comparing filter after its construction
MaxCalls == 2

---------------------------------------------------------------------------
(* plan.Status values and filterType tags, by their Go names. *)

statusOK                        == "statusOK"
statusStoreRemoved              == "statusStoreRemoved"
statusStoreDown                 == "statusStoreDown"
statusStoresRemoving            == "statusStoresRemoving"
statusStoreRejectLeader         == "statusStoreRejectLeader"
statusStoreDisconnected         == "statusStoreDisconnected"
statusStoreBusy                 == "statusStoreBusy"
statusStoreRemoveLimit          == "statusStoreRemoveLimit"
statusStoreAddLimit             == "statusStoreAddLimit"
statusStoreSnapshotThrottled    == "statusStoreSnapshotThrottled"
statusStorePendingPeerThrottled == "statusStorePendingPeerThrottled"
statusStoreAlreadyHasPeer       == "statusStoreAlreadyHasPeer"
statusStoreLowSpace             == "statusStoreLowSpace"
statusStoreNotMatchRule         == "statusStoreNotMatchRule"
statusStoreNotMatchIsolation    == "statusStoreNotMatchIsolation"

\* status.IsOK()
IsOK(status) == status = statusOK

\* the two directions handed to the counters
source == "source"
target == "target"

---------------------------------------------------------------------------
(* Stores and options: what the filters read of *core.StoreInfo and        *)
(* *config.PersistOptions.                                                 *)

DefaultOpt ==
    [MaxStoreDownTime    |-> 1,
     MaxSnapshotCount    |-> 1,
     MaxPendingPeerCount |-> 1,
     RejectLeader        |-> {[key |-> "leader", value |-> "reject"]},
     LocationLabels      |-> <<"zone", "host">>,
     PlacementRulesEnabled |-> FALSE]

\* a store with every attribute nominal
NominalStore(id, zone, host) ==
    [id                  |-> id,
     labels              |-> [zone |-> zone, host |-> host, leader |-> ""],
     removed             |-> FALSE,
     removing            |-> FALSE,
     downTime            |-> 0,
     disconnected        |-> FALSE,
     busy                |-> FALSE,
     availableRemovePeer |-> TRUE,
     availableAddPeer    |-> TRUE,
     sendingSnapCount    |-> 0,
     receivingSnapCount  |-> 0,
     pendingPeerCount    |-> 0,
     allowLeaderTransfer |-> TRUE,
     evictedAsSlowStore  |-> FALSE,
     lowSpace            |-> FALSE]

\* store.GetLabelValue(key): "" when the store has no such label
GetLabelValue(store, key) ==
    IF key \in DOMAIN store.labels THEN store.labels[key] ELSE ""

\* opts.CheckLabelProperty(typ, store.GetLabels())
CheckLabelProperty(opt, store) ==
    \E p \in opt.RejectLeader : GetLabelValue(store, p.key) = p.value

---------------------------------------------------------------------------
(* StoreStateFilter: the conditions. Each returns its status and the       *)
(* Reason it writes to the filter.                                         *)

storeStateOK                 == "storeStateOK"
storeStateTombstone          == "storeStateTombstone"
storeStateDown               == "storeStateDown"
storeStateOffline            == "storeStateOffline"
storeStatePauseLeader        == "storeStatePauseLeader"
storeStateSlow               == "storeStateSlow"
storeStateDisconnected       == "storeStateDisconnected"
storeStateBusy               == "storeStateBusy"
storeStateExceedRemoveLimit  == "storeStateExceedRemoveLimit"
storeStateExceedAddLimit     == "storeStateExceedAddLimit"
storeStateTooManySnapshot    == "storeStateTooManySnapshot"
storeStateTooManyPendingPeer == "storeStateTooManyPendingPeer"
storeStateRejectLeader       == "storeStateRejectLeader"

Verdict(rejects, reason, status) ==
    IF rejects THEN [status |-> status, Reason |-> reason]
               ELSE [status |-> statusOK, Reason |-> storeStateOK]

isRemoved(f, opt, store) ==
    Verdict(store.removed, storeStateTombstone, statusStoreRemoved)

isDown(f, opt, store) ==
    Verdict(store.downTime > opt.MaxStoreDownTime, storeStateDown, statusStoreDown)

isRemoving(f, opt, store) ==
    Verdict(store.removing, storeStateOffline, statusStoresRemoving)

pauseLeaderTransfer(f, opt, store) ==
    Verdict(~store.allowLeaderTransfer, storeStatePauseLeader, statusStoreRejectLeader)

slowStoreEvicted(f, opt, store) ==
    Verdict(store.evictedAsSlowStore, storeStateSlow, statusStoreRejectLeader)

isDisconnected(f, opt, store) ==
    Verdict(~f.AllowTemporaryStates /\ store.disconnected,
            storeStateDisconnected, statusStoreDisconnected)

\* isBusy that forgets AllowTemporaryStates
isBusyAlways(f, opt, store) ==
    Verdict(store.busy, storeStateBusy, statusStoreBusy)

isBusy(f, opt, store) ==
    Verdict(~f.AllowTemporaryStates /\ store.busy, storeStateBusy, statusStoreBusy)

exceedRemoveLimit(f, opt, store) ==
    Verdict(~f.AllowTemporaryStates /\ ~store.availableRemovePeer,
            storeStateExceedRemoveLimit, statusStoreRemoveLimit)

exceedAddLimit(f, opt, store) ==
    Verdict(~f.AllowTemporaryStates /\ ~store.availableAddPeer,
            storeStateExceedAddLimit, statusStoreAddLimit)

tooManySnapshots(f, opt, store) ==
    Verdict(~f.AllowTemporaryStates
              /\ (store.sendingSnapCount > opt.MaxSnapshotCount
                    \/ store.receivingSnapCount > opt.MaxSnapshotCount),
            storeStateTooManySnapshot, statusStoreSnapshotThrottled)

tooManyPendingPeers(f, opt, store) ==
    Verdict(~f.AllowTemporaryStates
              /\ opt.MaxPendingPeerCount > 0
              /\ store.pendingPeerCount > opt.MaxPendingPeerCount,
            storeStateTooManyPendingPeer, statusStorePendingPeerThrottled)

hasRejectLeaderProperty(f, opt, store) ==
    Verdict(CheckLabelProperty(opt, store), storeStateRejectLeader, statusStoreRejectLeader)

\* a conditionFunc value, called
Condition(name, f, opt, store) ==
    CASE name = "isRemoved"               -> isRemoved(f, opt, store)
      [] name = "isDown"                  -> isDown(f, opt, store)
      [] name = "isRemoving"              -> isRemoving(f, opt, store)
      [] name = "pauseLeaderTransfer"     -> pauseLeaderTransfer(f, opt, store)
      [] name = "slowStoreEvicted"        -> slowStoreEvicted(f, opt, store)
      [] name = "isDisconnected"          -> isDisconnected(f, opt, store)
      [] name = "isBusy"                  -> isBusy(f, opt, store)
      [] name = "exceedRemoveLimit"       -> exceedRemoveLimit(f, opt, store)
      [] name = "exceedAddLimit"          -> exceedAddLimit(f, opt, store)
      [] name = "tooManySnapshots"        -> tooManySnapshots(f, opt, store)
      [] name = "tooManyPendingPeers"     -> tooManyPendingPeers(f, opt, store)
      [] name = "hasRejectLeaderProperty" -> hasRejectLeaderProperty(f, opt, store)

leaderSource        == "leaderSource"
regionSource        == "regionSource"
leaderTarget        == "leaderTarget"
regionTarget        == "regionTarget"
scatterRegionTarget == "scatterRegionTarget"

\* the switch of anyConditionMatch: the condition list of a scenario
ConditionFuncs(typ) ==
    CASE typ = leaderSource ->
           <<"isRemoved", "isDown", "pauseLeaderTransfer", "isDisconnected">>
      [] typ = regionSource ->
           <<"isBusy", "exceedRemoveLimit", "tooManySnapshots">>
      [] typ = leaderTarget ->
           <<"isRemoved", "isRemoving", "isDown", "pauseLeaderTransfer",
             "slowStoreEvicted", "isDisconnected", "isBusy", "hasRejectLeaderProperty">>
      [] typ = regionTarget ->
           <<"isRemoved", "isRemoving", "isDown", "isDisconnected", "isBusy",
             "exceedAddLimit", "tooManySnapshots", "tooManyPendingPeers">>
      [] typ = scatterRegionTarget ->
           <<"isRemoved", "isRemoving", "isDown", "isDisconnected", "isBusy">>
      [] OTHER -> <<>>

\* A filter call returns [status, f, ran]: the status, the filter as the call
\* leaves it, and the conditions the call ran (in order).
Returned(status, f, ran) == [status |-> status, f |-> f, ran |-> ran]

\* one turn of the loop of anyConditionMatch: cf returned v
RECURSIVE ConditionLoop(_, _, _, _, _, _)
\* the status kept, the filter and the log as the rest of the loop left them
KeptStatus(status, rest) == Returned(status, rest.f, rest.ran)

\* ConditionTurn without the return: the conditions after a failing one are
\* evaluated too
ConditionTurnNoStop(funcs, i, f, opt, store, ran, v) ==
    IF ~IsOK(v.status)
    THEN KeptStatus(v.status,
                    ConditionLoop(funcs, i + 1, [f EXCEPT !.Reason = v.Reason], opt,
                                  store, Append(ran, funcs[i])))
    ELSE ConditionLoop(funcs, i + 1, [f EXCEPT !.Reason = v.Reason], opt, store,
                       Append(ran, funcs[i]))

ConditionTurn(funcs, i, f, opt, store, ran, v) ==
    IF ~IsOK(v.status)
    THEN Returned(v.status, [f EXCEPT !.Reason = v.Reason], Append(ran, funcs[i]))
    ELSE ConditionLoop(funcs, i + 1, [f EXCEPT !.Reason = v.Reason], opt, store,
                       Append(ran, funcs[i]))

\* the loop of anyConditionMatch from funcs[i] on
ConditionLoop(funcs, i, f, opt, store, ran) ==
    IF i > Len(funcs) THEN Returned(statusOK, f, ran)
    ELSE ConditionTurn(funcs, i, f, opt, store, ran, Condition(funcs[i], f, opt, store))

anyConditionMatch(f, typ, opt, store) ==
    ConditionLoop(ConditionFuncs(typ), 1, f, opt, store, <<>>)

\* the call after prev: the conditions it ran follow those of prev
After(prev, r) == Returned(r.status, r.f, prev.ran \o r.ran)

\* one "if applies { if status = f.anyConditionMatch(typ, ...); !status.IsOK()
\* { return } }" of Source/Target, reached with prev (not reached once a
\* status is not OK)
Scenario(prev, applies, typ, opts, store) ==
    IF IsOK(prev.status) /\ applies
    THEN After(prev, anyConditionMatch(prev.f, typ, opts, store))
    ELSE prev

\* StoreStateSource with regionSource tried before leaderSource
StoreStateSourceRegionFirst(f, opts, store) ==
    Scenario(Scenario(Returned(statusOK, f, <<>>),
                      f.MoveRegion, regionSource, opts, store),
             f.TransferLeader, leaderSource, opts, store)

\* StoreStateFilter.Source
StoreStateSource(f, opts, store) ==
    Scenario(Scenario(Returned(statusOK, f, <<>>),
                      f.TransferLeader, leaderSource, opts, store),
             f.MoveRegion, regionSource, opts, store)

\* StoreStateFilter.Target
StoreStateTarget(f, opts, store) ==
    Scenario(Scenario(Scenario(Returned(statusOK, f, <<>>),
                               f.TransferLeader, leaderTarget, opts, store),
                      f.MoveRegion /\ f.ScatterRegion, scatterRegionTarget, opts, store),
             f.MoveRegion /\ ~f.ScatterRegion, regionTarget, opts, store)

---------------------------------------------------------------------------
(* The stores of the model.                                                *)

Store1 == NominalStore(1, "z1", "h1")
Store2 == NominalStore(2, "z2", "h1")
\* a second store on the host of Store1
Store3 == NominalStore(3, "z1", "h1")
\* a store without a zone label
Store4 == NominalStore(4, "", "h3")

StorePool == {Store1, Store2, Store3, Store4}

StoreByID(id) == CHOOSE s \in StorePool : s.id = id

---------------------------------------------------------------------------
(* filterType tags of the filters that have one fixed tag. *)

excluded         == "excluded"
storageThreshold == "storageThreshold"
distinctScore    == "distinctScore"
ruleFit          == "ruleFit"
ruleLeader       == "ruleLeader"
specialUse       == "specialUse"
isolation        == "isolation"

NoFilter == [kind |-> "none"]

---------------------------------------------------------------------------
(* excludedFilter and storageThresholdFilter. *)

NewExcludedFilter(scope, sources, targets) ==
    [kind |-> "excludedFilter", scope |-> scope, sources |-> sources, targets |-> targets]

excludedSource(f, opt, store) ==
    IF store.id \in f.sources THEN statusStoreAlreadyHasPeer ELSE statusOK

excludedTarget(f, opt, store) ==
    IF store.id \in f.targets THEN statusStoreAlreadyHasPeer ELSE statusOK

NewStorageThresholdFilter(scope) ==
    [kind |-> "storageThresholdFilter", scope |-> scope]

storageThresholdSource(f, opt, store) == statusOK

storageThresholdTarget(f, opt, store) ==
    IF ~store.lowSpace THEN statusOK ELSE statusStoreLowSpace

---------------------------------------------------------------------------
(* distinctScoreFilter.                                                    *)

locationSafeguard == "safeguard"
locationImprove   == "improve"

\* core.replicaBaseScore
replicaBaseScore == 100

RECURSIVE Pow(_, _)
Pow(b, e) == IF e = 0 THEN 1 ELSE b * Pow(b, e - 1)

\* StoreInfo.CompareLocation: the (0-based) index of the first label on which
\* the two stores both have a value and differ, -1 when there is none
RECURSIVE CompareLocationFrom(_, _, _, _)
CompareLocationFrom(s, other, labels, i) ==
    IF i > Len(labels) THEN -1
    ELSE LET v1 == GetLabelValue(s, labels[i])
             v2 == GetLabelValue(other, labels[i])
         IN  IF v1 # "" /\ v2 # "" /\ v1 # v2 THEN i - 1
             ELSE CompareLocationFrom(s, other, labels, i + 1)

CompareLocation(s, other, labels) == CompareLocationFrom(s, other, labels, 1)

\* core.DistinctScore: the loop from stores[i] on
RECURSIVE DistinctScoreFrom(_, _, _, _)
DistinctScoreFrom(labels, stores, other, i) ==
    IF i > Len(stores) THEN 0
    ELSE LET s     == stores[i]
             index == CompareLocation(s, other, labels)
             own   == IF s.id # other.id /\ index # -1
                      THEN Pow(replicaBaseScore, Len(labels) - index - 1)
                      ELSE 0
         IN  own + DistinctScoreFrom(labels, stores, other, i + 1)

DistinctScore(labels, stores, other) == DistinctScoreFrom(labels, stores, other, 1)

\* the loop of newDistinctScoreFilter: stores without the source store
RECURSIVE WithoutStore(_, _)
WithoutStore(stores, id) ==
    IF stores = <<>> THEN <<>>
    ELSE IF Head(stores).id = id THEN WithoutStore(Tail(stores), id)
         ELSE <<Head(stores)>> \o WithoutStore(Tail(stores), id)

newDistinctScoreFilter(scope, labels, stores, src, policy) ==
    LET newStores == WithoutStore(stores, src.id)
    IN  [kind      |-> "distinctScoreFilter",
         scope     |-> scope,
         labels    |-> labels,
         stores    |-> newStores,
         safeScore |-> DistinctScore(labels, newStores, src),
         policy    |-> policy,
         srcStore  |-> src.id]

NewLocationSafeguard(scope, labels, stores, src) ==
    newDistinctScoreFilter(scope, labels, stores, src, locationSafeguard)

NewLocationImprover(scope, labels, stores, src) ==
    newDistinctScoreFilter(scope, labels, stores, src, locationImprove)

distinctScoreSource(f, opt, store) == statusOK

\* distinctScoreTarget with the safeguard comparison strict
distinctScoreTargetStrict(f, opt, store) ==
    IF DistinctScore(f.labels, f.stores, store) > f.safeScore
    THEN statusOK ELSE statusStoreNotMatchIsolation

\* distinctScoreTarget with the improve comparison not strict
distinctScoreTargetLax(f, opt, store) ==
    IF DistinctScore(f.labels, f.stores, store) >= f.safeScore
    THEN statusOK ELSE statusStoreNotMatchIsolation

distinctScoreTarget(f, opt, store) ==
    LET score == DistinctScore(f.labels, f.stores, store)
    IN  CASE f.policy = locationSafeguard /\ score >= f.safeScore -> statusOK
          [] f.policy = locationImprove /\ score > f.safeScore -> statusOK
          [] OTHER -> statusStoreNotMatchIsolation

---------------------------------------------------------------------------
(* Regions and the rule-fit engine (package placement), which the rule-fit *)
(* filters consume: FitRegion(cluster, region) and RegionFit.Replace.      *)

NilFit  == [nil |-> TRUE]
NilPeer == [nil |-> TRUE]

Peer(id, storeID, role) == [id |-> id, storeID |-> storeID, role |-> role]

\* region.GetStorePeer(storeID): the first peer on that store, or nil
RECURSIVE StorePeerFrom(_, _, _)
StorePeerFrom(peers, storeID, i) ==
    IF i > Len(peers) THEN NilPeer
    ELSE IF peers[i].storeID = storeID THEN peers[i]
         ELSE StorePeerFrom(peers, storeID, i + 1)

GetStorePeer(r, storeID) == StorePeerFrom(r.peers, storeID, 1)

\* cluster.GetRegionStores(region): the stores of the region's peers, in peer order
RECURSIVE RegionStoresFrom(_, _, _)
RegionStoresFrom(cluster, peers, i) ==
    IF i > Len(peers) THEN <<>>
    ELSE LET here == {s \in cluster : s.id = peers[i].storeID}
         IN  (IF here = {} THEN <<>> ELSE <<CHOOSE s \in here : TRUE>>)
               \o RegionStoresFrom(cluster, peers, i + 1)

GetRegionStores(cluster, r) == RegionStoresFrom(cluster, r.peers, 1)

\* ruleManager.FitRegion(cluster, region): the fit of the region's placement,
\* here that of one rule isolating the replicas by the location labels
FitRegion(ruleManager, cluster, r) ==
    [stores |-> GetRegionStores(cluster, r), labels |-> ruleManager.labels]

\* oldFit.Replace(srcStoreID, dstStore, region): a store already among the
\* fit's stores only changes role; any other must not lower the isolation
Replace(fit, srcStoreID, dstStore, r) ==
    LET held == {i \in 1..Len(fit.stores) : fit.stores[i].id = srcStoreID}
    IN  IF held = {} THEN FALSE
        ELSE IF \E i \in 1..Len(fit.stores) : fit.stores[i].id = dstStore.id THEN TRUE
        ELSE LET src  == fit.stores[CHOOSE i \in held : TRUE]
                 rest == WithoutStore(fit.stores, srcStoreID)
             IN  DistinctScore(fit.labels, rest, dstStore)
                   >= DistinctScore(fit.labels, rest, src)

---------------------------------------------------------------------------
(* ruleFitFilter and ruleLeaderFitFilter. A constructor returns the filter *)
(* and the engine calls it made.                                           *)

Built(f, ran) == [f |-> f, ran |-> ran]

newRuleFitFilter(scope, cluster, ruleManager, r, oldFit, oldStoreID) ==
    LET fit == IF oldFit = NilFit THEN FitRegion(ruleManager, cluster, r) ELSE oldFit
    IN  Built([kind        |-> "ruleFitFilter",
               scope       |-> scope,
               cluster     |-> cluster,
               ruleManager |-> ruleManager,
               region      |-> r,
               oldFit      |-> fit,
               srcStore    |-> oldStoreID],
              IF oldFit = NilFit THEN <<"FitRegion">> ELSE <<>>)

ruleFitSource(f, opt, store) == Returned(statusOK, f, <<>>)

\* createRegionForRuleFit: a region of the same key range with copies of the
\* peers and of the leader
createRegionForRuleFit(startKey, endKey, peers, leader) ==
    [id       |-> 0,
     startKey |-> startKey,
     endKey   |-> endKey,
     peers    |-> [i \in 1..Len(peers) |->
                     Peer(peers[i].id, peers[i].storeID, peers[i].role)],
     leader   |-> Peer(leader.id, leader.storeID, leader.role)]

\* ruleFitTarget trying the replacement on the region itself: the peer of
\* the source store is moved to the candidate
ruleFitTargetOnRegion(f, opt, store) ==
    Returned(IF Replace(f.oldFit, f.srcStore, store, f.region)
             THEN statusOK ELSE statusStoreNotMatchRule,
             [f EXCEPT !.region.peers =
                [i \in 1..Len(@) |->
                   IF @[i].storeID = f.srcStore
                   THEN Peer(@[i].id, store.id, @[i].role) ELSE @[i]]],
             <<"Replace">>)

\* ruleFitTarget fitting the region again before it compares
ruleFitTargetRefit(f, opt, store) ==
    Returned(IF Replace(FitRegion(f.ruleManager, f.cluster, f.region),
                        f.srcStore, store, f.region)
             THEN statusOK ELSE statusStoreNotMatchRule,
             [f EXCEPT !.oldFit = FitRegion(f.ruleManager, f.cluster, f.region)],
             <<"FitRegion", "Replace">>)

ruleFitTarget(f, opt, store) ==
    Returned(IF Replace(f.oldFit, f.srcStore, store, f.region)
             THEN statusOK ELSE statusStoreNotMatchRule,
             f, <<"Replace">>)

newRuleLeaderFitFilter(scope, cluster, ruleManager, r, srcLeaderStoreID, allowMoveLeader) ==
    Built([kind             |-> "ruleLeaderFitFilter",
           scope            |-> scope,
           cluster          |-> cluster,
           ruleManager      |-> ruleManager,
           region           |-> r,
           oldFit           |-> FitRegion(ruleManager, cluster, r),
           srcLeaderStoreID |-> srcLeaderStoreID,
           allowMoveLeader  |-> allowMoveLeader],
          <<"FitRegion">>)

ruleLeaderFitSource(f, opt, store) == Returned(statusOK, f, <<>>)

\* ruleLeaderFitTarget without the test for a peer on the target store
ruleLeaderFitTargetAnyStore(f, opt, store) ==
    Returned(IF Replace(f.oldFit, f.srcLeaderStoreID, store, f.region)
             THEN statusOK ELSE statusStoreNotMatchRule,
             f, <<"Replace">>)

ruleLeaderFitTarget(f, opt, store) ==
    LET targetPeer == GetStorePeer(f.region, store.id)
    IN  IF targetPeer = NilPeer /\ ~f.allowMoveLeader
        THEN Returned(statusStoreNotMatchRule, f, <<>>)
        ELSE Returned(IF Replace(f.oldFit, f.srcLeaderStoreID, store, f.region)
                      THEN statusOK ELSE statusStoreNotMatchRule,
                      f, <<"Replace">>)

NewPlacementSafeguard(scope, opt, cluster, ruleManager, r, sourceStore, oldFit) ==
    IF opt.PlacementRulesEnabled
    THEN newRuleFitFilter(scope, cluster, ruleManager, r, oldFit, sourceStore.id)
    ELSE Built(NewLocationSafeguard(scope, opt.LocationLabels,
                                    GetRegionStores(cluster, r), sourceStore),
               <<>>)

---------------------------------------------------------------------------
(* specialUseFilter.                                                       *)

SpecialUseKey       == "specialUse"
SpecialUseHotRegion == "hotRegion"
SpecialUseReserved  == "reserved"

allSpecialUses == <<SpecialUseHotRegion, SpecialUseReserved>>

\* placement.LabelConstraint.MatchStore for the operators In and NotIn
MatchStore(constraint, store) ==
    CASE constraint.op = "in" ->
           /\ GetLabelValue(store, constraint.key) # ""
           /\ \E i \in 1..Len(constraint.values) :
                 constraint.values[i] = GetLabelValue(store, constraint.key)
      [] constraint.op = "notIn" ->
           \/ GetLabelValue(store, constraint.key) = ""
           \/ \A i \in 1..Len(constraint.values) :
                 constraint.values[i] # GetLabelValue(store, constraint.key)

\* store.IsLowSpace(opt.GetLowSpaceRatio())
IsLowSpace(store, opt) == store.lowSpace

\* values: the special uses that allowUses does not name, in the order of
\* allSpecialUses
NewSpecialUseFilter(scope, allowUses) ==
    [kind       |-> "specialUseFilter",
     scope      |-> scope,
     constraint |->
         [key    |-> SpecialUseKey,
          op     |-> "in",
          values |-> SelectSeq(allSpecialUses,
                               LAMBDA v : \A i \in 1..Len(allowUses) : allowUses[i] # v)]]

\* specialUseSource without the exemption of stores low on space
specialUseSourceAnySpace(f, opt, store) ==
    IF ~MatchStore(f.constraint, store) THEN statusOK ELSE statusStoreNotMatchRule

specialUseSource(f, opt, store) ==
    IF IsLowSpace(store, opt) \/ ~MatchStore(f.constraint, store)
    THEN statusOK ELSE statusStoreNotMatchRule

specialUseTarget(f, opt, store) ==
    IF ~MatchStore(f.constraint, store) THEN statusOK ELSE statusStoreNotMatchRule

---------------------------------------------------------------------------
(* isolationFilter.                                                        *)

\* a constructor that panicked: no filter is returned
Panicked == [kind |-> "panic", error |-> "index out of range"]

\* the loop of NewIsolationFilter that finds isolationLevelIdx (0-based): the
\* place of the first label equal to isolationLevel, the zero value when
\* there is none
RECURSIVE IsolationLevelIdxFrom(_, _, _)
IsolationLevelIdxFrom(isolationLevel, locationLabels, level) ==
    IF level >= Len(locationLabels) THEN 0
    ELSE IF locationLabels[level + 1] = isolationLevel THEN level
         ELSE IsolationLevelIdxFrom(isolationLevel, locationLabels, level + 1)

\* the inner loop: the values of regionStore for locationLabels[0..idx]
ConstraintList(regionStore, locationLabels, isolationLevelIdx) ==
    [i \in 1..(isolationLevelIdx + 1) |-> GetLabelValue(regionStore, locationLabels[i])]

NewIsolationFilter(scope, isolationLevel, locationLabels, regionStores) ==
    IF /\ regionStores # <<>>
       /\ IsolationLevelIdxFrom(isolationLevel, locationLabels, 0) >= Len(locationLabels)
    THEN Panicked     \* locationLabels[i] with i out of range
    ELSE [kind           |-> "isolationFilter",
          scope          |-> scope,
          locationLabels |-> locationLabels,
          constraintSet  |->
              [k \in 1..Len(regionStores) |->
                 ConstraintList(regionStores[k], locationLabels,
                                IsolationLevelIdxFrom(isolationLevel, locationLabels, 0))]]

isolationSource(f, opt, store) == statusOK

\* the inner loop of Target: match after constrainList[idx..]
RECURSIVE IsolationMatchFrom(_, _, _, _, _)
IsolationMatchFrom(f, store, constrainList, idx, match) ==
    IF idx > Len(constrainList) THEN match
    ELSE IsolationMatchFrom(f, store, constrainList, idx + 1,
           GetLabelValue(store, f.locationLabels[idx]) = constrainList[idx] /\ match)

\* isolationTarget that stops at the first recorded tuple
isolationTargetFirstOnly(f, opt, store) ==
    IF Len(f.constraintSet) = 0 THEN statusStoreNotMatchIsolation
    ELSE IF IsolationMatchFrom(f, store, f.constraintSet[1], 1, TRUE)
         THEN statusStoreNotMatchIsolation ELSE statusOK

\* the outer loop of Target, from constraintSet[k] on
RECURSIVE IsolationTargetFrom(_, _, _)
IsolationTargetFrom(f, store, k) ==
    IF k > Len(f.constraintSet) THEN statusOK
    ELSE IF /\ Len(f.constraintSet[k]) > 0
            /\ IsolationMatchFrom(f, store, f.constraintSet[k], 1, TRUE)
         THEN statusStoreNotMatchIsolation
         ELSE IsolationTargetFrom(f, store, k + 1)

isolationTarget(f, opt, store) ==
    IF Len(f.constraintSet) = 0 THEN statusStoreNotMatchIsolation
    ELSE IsolationTargetFrom(f, store, 1)

---------------------------------------------------------------------------
(* The Filter interface, dispatched on the concrete type.                  *)

FilterSource(f, opt, store) ==
    CASE f.kind = "excludedFilter" ->
           Returned(excludedSource(f, opt, store), f, <<>>)
      [] f.kind = "storageThresholdFilter" ->
           Returned(storageThresholdSource(f, opt, store), f, <<>>)
      [] f.kind = "distinctScoreFilter" ->
           Returned(distinctScoreSource(f, opt, store), f, <<>>)
      [] f.kind = "StoreStateFilter"    -> StoreStateSource(f, opt, store)
      [] f.kind = "ruleFitFilter"       -> ruleFitSource(f, opt, store)
      [] f.kind = "ruleLeaderFitFilter" -> ruleLeaderFitSource(f, opt, store)
      [] f.kind = "isolationFilter" ->
           Returned(isolationSource(f, opt, store), f, <<>>)
      [] f.kind = "specialUseFilter" ->
           Returned(specialUseSource(f, opt, store), f, <<>>)

FilterTarget(f, opt, store) ==
    CASE f.kind = "excludedFilter" ->
           Returned(excludedTarget(f, opt, store), f, <<>>)
      [] f.kind = "storageThresholdFilter" ->
           Returned(storageThresholdTarget(f, opt, store), f, <<>>)
      [] f.kind = "distinctScoreFilter" ->
           Returned(distinctScoreTarget(f, opt, store), f, <<>>)
      [] f.kind = "StoreStateFilter"    -> StoreStateTarget(f, opt, store)
      [] f.kind = "ruleFitFilter"       -> ruleFitTarget(f, opt, store)
      [] f.kind = "ruleLeaderFitFilter" -> ruleLeaderFitTarget(f, opt, store)
      [] f.kind = "isolationFilter" ->
           Returned(isolationTarget(f, opt, store), f, <<>>)
      [] f.kind = "specialUseFilter" ->
           Returned(specialUseTarget(f, opt, store), f, <<>>)

\* filter.Type()
FilterType(f) ==
    CASE f.kind = "excludedFilter"         -> excluded
      [] f.kind = "storageThresholdFilter" -> storageThreshold
      [] f.kind = "distinctScoreFilter"    -> distinctScore
      [] f.kind = "StoreStateFilter"       -> f.Reason
      [] f.kind = "ruleFitFilter"          -> ruleFit
      [] f.kind = "ruleLeaderFitFilter"    -> ruleLeader
      [] f.kind = "isolationFilter"        -> isolation
      [] f.kind = "specialUseFilter"       -> specialUse

\* filter.Scope()
FilterScope(f) == IF f.kind = "StoreStateFilter" THEN f.ActionScope ELSE f.scope

\* filter.(comparingFilter): whether the type assertion succeeds
IsComparingFilter(f) ==
    f.kind \in {"distinctScoreFilter", "ruleFitFilter", "ruleLeaderFitFilter"}

\* cfilter.GetSourceStoreID()
GetSourceStoreID(f) ==
    IF f.kind = "ruleLeaderFitFilter" THEN f.srcLeaderStoreID ELSE f.srcStore

---------------------------------------------------------------------------
(* The selection functions. What a call may write travels in env:          *)
(* [filters, counter, filterCounter, collector, calls, ran]; calls is the  *)
(* log of the Source/Target calls made (pos: the candidate's place in      *)
(* stores), ran what those calls ran in turn.                              *)

\* strconv.FormatUint(id, 10)
FormatUint(id) == ToString(id)

\* counter.inc(dir, type, sourceID, targetID)
CounterInc(c, dir, typ, sourceID, targetID) ==
    [c EXCEPT !.incs = Append(@, [dir |-> dir, type |-> typ,
                                  sourceID |-> sourceID, targetID |-> targetID])]

\* filterCounter.WithLabelValues(dir, scope, type, sourceID, targetID).Inc()
MetricInc(m, dir, scope, typ, sourceID, targetID) ==
    Append(m, [dir |-> dir, scope |-> scope, type |-> typ,
               sourceID |-> sourceID, targetID |-> targetID])

\* collector.Collect(plan.SetResource(s), plan.SetStatus(status)); step is 0
\* for SetResource and the given step for SetResourceWithStep
Collect(col, store, step, status) ==
    [col EXCEPT !.records = Append(@, [resource |-> store.id, step |-> step,
                                       status |-> status])]

Logged(env, i, s, k, dir) ==
    Append(env.calls, [filter |-> i, pos |-> k, store |-> s.id, dir |-> dir])

\* the rest of a closure once the filter returned an OK status
Passed(env, i, s, k, dir, r) ==
    [env EXCEPT !.filters = [env.filters EXCEPT ![i] = r.f],
                !.calls = Logged(env, i, s, k, dir),
                !.ran = env.ran \o r.ran]

\* what the closure of SelectSourceStores does on a status that is not OK
SourceRejected(env, i, s, k, r) ==
    [filters |-> [env.filters EXCEPT ![i] = r.f],
     counter |-> IF env.counter.present
                 THEN CounterInc(env.counter, source, FilterType(r.f), s.id, 0)
                 ELSE env.counter,
     filterCounter |->
                 IF env.counter.present THEN env.filterCounter
                 ELSE MetricInc(env.filterCounter, source, FilterScope(r.f),
                                FilterType(r.f), FormatUint(s.id), ""),
     collector |-> IF env.collector.present
                   THEN Collect(env.collector, s, 0, r.status)
                   ELSE env.collector,
     calls |-> Logged(env, i, s, k, source),
     ran |-> env.ran \o r.ran]

\* SourceReturned without the "return false" that ends a rejection
SourceReturnedNoStop(env, i, s, k, r) ==
    [ret |-> TRUE, env |-> SourceRejected(env, i, s, k, r)]

\* the closure of SelectSourceStores handed to slice.AllOf, once
\* filters[i].Source returned r
SourceReturned(env, i, s, k, r) ==
    IF ~IsOK(r.status)
    THEN [ret |-> FALSE, env |-> SourceRejected(env, i, s, k, r)]
    ELSE [ret |-> TRUE, env |-> Passed(env, i, s, k, source, r)]

SourcePred(env, opt, i, s, k) ==
    SourceReturned(env, i, s, k, FilterSource(env.filters[i], opt, s))

\* what the two target closures do on a status that is not OK, with
\* sourceID read from a comparing filter
TargetRejected(env, i, s, k, r, step, sourceID) ==
    [filters |-> [env.filters EXCEPT ![i] = r.f],
     counter |-> IF env.counter.present
                 THEN CounterInc(env.counter, target, FilterType(r.f), sourceID, s.id)
                 ELSE env.counter,
     filterCounter |->
                 IF env.counter.present THEN env.filterCounter
                 ELSE MetricInc(env.filterCounter, target, FilterScope(r.f), FilterType(r.f),
                                FormatUint(sourceID), FormatUint(s.id)),
     collector |-> IF env.collector.present
                   THEN Collect(env.collector, s, step, r.status)
                   ELSE env.collector,
     calls |-> Logged(env, i, s, k, target),
     ran |-> env.ran \o r.ran]

\* cfilter, ok := filter.(comparingFilter); sourceID is 0 unless ok
SourceIDOf(f) == IF IsComparingFilter(f) THEN GetSourceStoreID(f) ELSE 0

\* the closure of SelectUnavailableTargetStores handed to slice.AnyOf, once
\* filters[i].Target returned r
UnavailableReturned(env, i, s, k, r) ==
    IF ~IsOK(r.status)
    THEN [ret |-> TRUE, env |-> TargetRejected(env, i, s, k, r, 2, SourceIDOf(r.f))]
    ELSE [ret |-> FALSE, env |-> Passed(env, i, s, k, target, r)]

UnavailablePred(env, opt, i, s, k) ==
    UnavailableReturned(env, i, s, k, FilterTarget(env.filters[i], opt, s))

\* TargetReturned with its "return false" inside "if collector != nil"
TargetReturnedInCollector(env, i, s, k, r) ==
    IF ~IsOK(r.status)
    THEN [ret |-> ~env.collector.present,
          env |-> TargetRejected(env, i, s, k, r, 0, SourceIDOf(r.f))]
    ELSE [ret |-> TRUE, env |-> Passed(env, i, s, k, target, r)]

\* TargetReturned returning by the type the filter reports, not by the status
TargetReturnedByType(env, i, s, k, r) ==
    IF ~IsOK(r.status)
    THEN [ret |-> FilterType(r.f) = storeStateOK,
          env |-> TargetRejected(env, i, s, k, r, 0, SourceIDOf(r.f))]
    ELSE [ret |-> TRUE, env |-> Passed(env, i, s, k, target, r)]

\* the closure of SelectTargetStores handed to slice.AllOf, once
\* filter.Target returned r
TargetReturned(env, i, s, k, r) ==
    IF ~IsOK(r.status)
    THEN [ret |-> FALSE, env |-> TargetRejected(env, i, s, k, r, 0, SourceIDOf(r.f))]
    ELSE [ret |-> TRUE, env |-> Passed(env, i, s, k, target, r)]

TargetPred(env, opt, i, s, k) ==
    TargetReturned(env, i, s, k, FilterTarget(env.filters[i], opt, s))

Pred(op, env, opt, i, s, k) ==
    CASE op = "source"      -> SourcePred(env, opt, i, s, k)
      [] op = "target"      -> TargetPred(env, opt, i, s, k)
      [] op = "unavailable" -> UnavailablePred(env, opt, i, s, k)

\* slice.AnyOf(filters, p) from index i on; negate: p is the negation of Pred
RECURSIVE AnyOfFrom(_, _, _, _, _, _, _)
AnyOfTurn(op, negate, opt, i, s, k, r) ==
    IF r.ret # negate THEN [ret |-> TRUE, env |-> r.env]
    ELSE AnyOfFrom(op, negate, r.env, opt, i + 1, s, k)

AnyOfFrom(op, negate, env, opt, i, s, k) ==
    IF i > Len(env.filters) THEN [ret |-> FALSE, env |-> env]
    ELSE AnyOfTurn(op, negate, opt, i, s, k, Pred(op, env, opt, i, s, k))

AnyOf(op, env, opt, s, k) == AnyOfFrom(op, FALSE, env, opt, 1, s, k)

Negated(r) == [ret |-> ~r.ret, env |-> r.env]

\* slice.NoneOf(filters, p)
NoneOf(op, negate, env, opt, s, k) == Negated(AnyOfFrom(op, negate, env, opt, 1, s, k))

\* slice.AllOf(filters, p) is NoneOf of the negated p
AllOf(op, env, opt, s, k) == NoneOf(op, TRUE, env, opt, s, k)

\* KeepPred with slice.AnyOf where slice.AllOf belongs
KeepPredAnyOf(op, env, opt, s, k) == AnyOf(op, env, opt, s, k)

\* KeepPred with slice.AllOf where slice.AnyOf belongs
KeepPredAllOf(op, env, opt, s, k) == AllOf(op, env, opt, s, k)

\* the keepPred each selection function hands to filterStoresBy
KeepPred(op, env, opt, s, k) ==
    IF op = "unavailable" THEN AnyOf(op, env, opt, s, k) ELSE AllOf(op, env, opt, s, k)

\* the loop of filterStoresBy from stores[k] on
RECURSIVE FilterStoresFrom(_, _, _, _, _, _)
\* FilterStoresTurn putting a kept store in front of the list
FilterStoresTurnPrepend(op, opt, stores, k, selected, r) ==
    FilterStoresFrom(op, r.env, opt, stores, k + 1,
                     IF r.ret THEN <<stores[k]>> \o selected ELSE selected)

FilterStoresTurn(op, opt, stores, k, selected, r) ==
    FilterStoresFrom(op, r.env, opt, stores, k + 1,
                     IF r.ret THEN Append(selected, stores[k]) ELSE selected)

FilterStoresFrom(op, env, opt, stores, k, selected) ==
    IF k > Len(stores) THEN [selected |-> selected, env |-> env]
    ELSE FilterStoresTurn(op, opt, stores, k, selected,
                          KeepPred(op, env, opt, stores[k], k))

filterStoresBy(op, env, opt, stores) == FilterStoresFrom(op, env, opt, stores, 1, <<>>)

Env(filters, col, cnt, metric) ==
    [filters |-> filters, counter |-> cnt, filterCounter |-> metric,
     collector |-> col, calls |-> <<>>, ran |-> <<>>]

SelectSourceStores(stores, filters, opt, col, cnt, metric) ==
    filterStoresBy("source", Env(filters, col, cnt, metric), opt, stores)

SelectUnavailableTargetStores(stores, filters, opt, col, cnt, metric) ==
    filterStoresBy("unavailable", Env(filters, col, cnt, metric), opt, stores)

\* SelectTargetStores returning nothing on an empty chain
SelectTargetStoresEmptyNil(stores, filters, opt, col, cnt, metric) ==
    IF Len(filters) = 0
    THEN [selected |-> <<>>, env |-> Env(filters, col, cnt, metric)]
    ELSE filterStoresBy("target", Env(filters, col, cnt, metric), opt, stores)

SelectTargetStores(stores, filters, opt, col, cnt, metric) ==
    IF Len(filters) = 0
    THEN [selected |-> stores, env |-> Env(filters, col, cnt, metric)]
    ELSE filterStoresBy("target", Env(filters, col, cnt, metric), opt, stores)

---------------------------------------------------------------------------
(* Values the variables of a part of the model hold while another part     *)
(* runs.                                                                   *)

NoCall    == [dir |-> "none"]
NoCounter == [present |-> FALSE, incs |-> <<>>]
NoCollector == [present |-> FALSE, records |-> <<>>]

Region1 ==
    [id       |-> 1,
     startKey |-> "a",
     endKey   |-> "b",
     peers    |-> <<Peer(11, 1, "voter"), Peer(12, 2, "voter"), Peer(13, 3, "voter")>>,
     leader   |-> Peer(11, 1, "voter")]

SelIdle ==
    /\ counter = NoCounter
    /\ filterCounter = <<>>
    /\ collector = NoCollector
    /\ selOp = "none"
    /\ selStores = <<>>
    /\ selFilters = <<>>
    /\ selAfter = <<>>
    /\ selResult = <<>>
    /\ selCalls = <<>>
    /\ selPrior = [counter |-> 0, metric |-> 0, collector |-> 0]

SsIdle ==
    /\ ssf = NoFilter
    /\ ssOpt = DefaultOpt
    /\ ssCall = NoCall

CmpIdle ==
    /\ dsf = NoFilter
    /\ rff = NoFilter
    /\ rlf = NoFilter
    /\ region = Region1
    /\ fitCalls = [ruleFit |-> 0, ruleLeader |-> 0]
    /\ cmpArgs = [kind |-> "none"]
    /\ cmpCall = NoCall

PlainIdle ==
    /\ plf = NoFilter
    /\ plArgs = [kind |-> "none"]
    /\ plCall = NoCall

RaceIdle ==
    /\ raceF = NoFilter
    /\ raceProc = <<>>

---------------------------------------------------------------------------
(* Spec: one call of a selection function, on any store list and filter    *)
(* chain of the pools, with the collector and the counter nil or not.      *)

\* &StoreStateFilter{...}: Reason starts as the zero filterType
NewStoreStateFilter(scope, transferLeader, moveRegion, scatterRegion, allowTemporaryStates) ==
    [kind                 |-> "StoreStateFilter",
     ActionScope          |-> scope,
     TransferLeader       |-> transferLeader,
     MoveRegion           |-> moveRegion,
     ScatterRegion        |-> scatterRegion,
     AllowTemporaryStates |-> allowTemporaryStates,
     Reason               |-> excluded]

\* candidates: a nominal store, a busy store that is down, a store low on space
SelStorePool ==
    {Store1,
     [Store2 EXCEPT !.busy = TRUE, !.downTime = DefaultOpt.MaxStoreDownTime + 1],
     [Store3 EXCEPT !.lowSpace = TRUE]}

SelFilterPool ==
    {NewExcludedFilter("test", {1}, {3}),
     NewStorageThresholdFilter("test"),
     NewStoreStateFilter("test", FALSE, TRUE, FALSE, FALSE),
     NewLocationSafeguard("test", <<"zone">>, <<Store1, Store2>>, Store1)}

SeqsUpTo(S, n) == UNION {[1..m -> S] : m \in 0..n}

PriorInc == [dir |-> target, type |-> excluded, sourceID |-> 0, targetID |-> 9]

SelInit ==
    /\ counter \in {NoCounter,
                    [present |-> TRUE, incs |-> <<>>],
                    [present |-> TRUE, incs |-> <<PriorInc>>]}
    /\ filterCounter = <<>>
    /\ collector \in {NoCollector, [present |-> TRUE, records |-> <<>>]}
    /\ selOp = "none"
    /\ selStores = <<>>
    /\ selFilters = <<>>
    /\ selAfter = <<>>
    /\ selResult = <<>>
    /\ selCalls = <<>>
    /\ selPrior = [counter |-> 0, metric |-> 0, collector |-> 0]

\* the call returned r
Selected(op, stores, filters, r) ==
    /\ selOp' = op
    /\ selStores' = stores
    /\ selFilters' = filters
    /\ selAfter' = r.env.filters
    /\ selResult' = r.selected
    /\ selCalls' = r.env.calls
    /\ counter' = r.env.counter
    /\ filterCounter' = r.env.filterCounter
    /\ collector' = r.env.collector
    /\ selPrior' = [counter |-> Len(counter.incs), metric |-> Len(filterCounter),
                    collector |-> Len(collector.records)]
    /\ UNCHANGED <<ssVars, cmpVars, plainVars, raceVars>>

CallSelectSourceStores ==
    /\ selOp = "none"
    /\ \E stores \in SeqsUpTo(SelStorePool, MaxStores),
          filters \in SeqsUpTo(SelFilterPool, MaxFilters) :
          Selected("source", stores, filters,
                   SelectSourceStores(stores, filters, DefaultOpt,
                                      collector, counter, filterCounter))

CallSelectUnavailableTargetStores ==
    /\ selOp = "none"
    /\ \E stores \in SeqsUpTo(SelStorePool, MaxStores),
          filters \in SeqsUpTo(SelFilterPool, MaxFilters) :
          Selected("unavailable", stores, filters,
                   SelectUnavailableTargetStores(stores, filters, DefaultOpt,
                                                 collector, counter, filterCounter))

CallSelectTargetStores ==
    /\ selOp = "none"
    /\ \E stores \in SeqsUpTo(SelStorePool, MaxStores),
          filters \in SeqsUpTo(SelFilterPool, MaxFilters) :
          Selected("target", stores, filters,
                   SelectTargetStores(stores, filters, DefaultOpt,
                                      collector, counter, filterCounter))

Init == SelInit /\ SsIdle /\ CmpIdle /\ PlainIdle /\ RaceIdle

Next ==
    \/ CallSelectSourceStores
    \/ CallSelectUnavailableTargetStores
    \/ CallSelectTargetStores

Spec == Init /\ [][Next]_vars

---------------------------------------------------------------------------
(* Properties of the selection functions (Spec).                           *)

Range(seq) == {seq[i] : i \in 1..Len(seq)}

Count(seq, x) == Cardinality({i \in 1..Len(seq) : seq[i] = x})

Min(S) == CHOOSE x \in S : \A y \in S : x <= y

\* the status filter f gives store s in the direction of the call that ran
StatusOf(f, s) ==
    IF selOp = "source" THEN FilterSource(f, DefaultOpt, s).status
                        ELSE FilterTarget(f, DefaultOpt, s).status

\* the first filter of the chain that rejects s, 0 when none does
FirstFailing(s) ==
    LET bad == {i \in 1..Len(selFilters) : ~IsOK(StatusOf(selFilters[i], s))}
    IN  IF bad = {} THEN 0 ELSE Min(bad)

\* the call that ran, made again without collector and counter
PlainSelect(op) ==
    CASE op = "source" ->
           SelectSourceStores(selStores, selFilters, DefaultOpt, NoCollector, NoCounter, <<>>)
      [] op = "unavailable" ->
           SelectUnavailableTargetStores(selStores, selFilters, DefaultOpt,
                                         NoCollector, NoCounter, <<>>)
      [] op = "target" ->
           SelectTargetStores(selStores, selFilters, DefaultOpt, NoCollector, NoCounter, <<>>)

\* C1: a store of the list is in the result of SelectTargetStores iff every
\* filter of the chain returns OK from Target for it, and in the result of
\* SelectSourceStores iff every filter returns OK from Source for it.
C1_SelectedIffAllOK ==
    selOp \in {"source", "target"} =>
        \A s \in Range(selStores) :
            (s \in Range(selResult))
                <=> \A i \in 1..Len(selFilters) : IsOK(StatusOf(selFilters[i], s))

\* a two-filter chain kept one store and dropped another that passes the
\* first filter and fails the second
C1_Witness ==
    /\ selOp = "target"
    /\ Len(selFilters) = 2
    /\ selResult # <<>>
    /\ \E s \in Range(selStores) : s \notin Range(selResult) /\ FirstFailing(s) = 2

\* the other of SelectTargetStores / SelectUnavailableTargetStores on the
\* arguments of the call that ran
OtherTargetSelection ==
    IF selOp = "target" THEN PlainSelect("unavailable").selected
                        ELSE PlainSelect("target").selected

\* C2: with a non-empty chain, SelectUnavailableTargetStores and
\* SelectTargetStores partition the store list: every store is in exactly
\* one of the two results.
C2_Partition ==
    (selOp \in {"target", "unavailable"} /\ Len(selFilters) > 0) =>
        /\ \A s \in Range(selStores) :
               (s \in Range(selResult)) <=> (s \notin Range(OtherTargetSelection))
        /\ Len(selResult) + Len(OtherTargetSelection) = Len(selStores)

\* SelectUnavailableTargetStores returned one of two stores, and the other
\* selection the other one
C2_Witness ==
    /\ selOp = "unavailable"
    /\ Len(selFilters) = 2
    /\ Len(selStores) = 2
    /\ Len(selResult) = 1
    /\ Len(OtherTargetSelection) = 1

\* the calls made for the candidate at place k of the list
CallsAt(k) == SelectSeq(selCalls, LAMBDA c : c.pos = k)

NewCounterIncs == SubSeq(counter.incs, selPrior.counter + 1, Len(counter.incs))
NewMetricIncs  == SubSeq(filterCounter, selPrior.metric + 1, Len(filterCounter))
NewRecords     == SubSeq(collector.records, selPrior.collector + 1, Len(collector.records))

\* increments (of either sink) the call made for store id
IncsFor(id) ==
    Cardinality({j \in 1..Len(NewCounterIncs) :
                    (IF selOp = "source" THEN NewCounterIncs[j].sourceID
                                         ELSE NewCounterIncs[j].targetID) = id})
    + Cardinality({j \in 1..Len(NewMetricIncs) :
                    (IF selOp = "source" THEN NewMetricIncs[j].sourceID
                                         ELSE NewMetricIncs[j].targetID) = FormatUint(id)})

RecordsFor(id) == Cardinality({j \in 1..Len(NewRecords) : NewRecords[j].resource = id})

\* places of the list that hold store id and are rejected by some filter
RejectedPlaces(id) ==
    {k \in 1..Len(selStores) : selStores[k].id = id /\ FirstFailing(selStores[k]) # 0}

\* C3: for each candidate the filters are called in chain order up to the
\* first one that returns a status that is not OK and no further; a rejected
\* candidate produces exactly one counter increment and, with a collector,
\* exactly one record; a candidate every filter accepts produces none.
C3_ShortCircuit ==
    selOp # "none" =>
        /\ \A k \in 1..Len(selStores) :
               /\ Len(CallsAt(k)) = IF FirstFailing(selStores[k]) = 0
                                    THEN Len(selFilters)
                                    ELSE FirstFailing(selStores[k])
               /\ \A j \in 1..Len(CallsAt(k)) :
                      /\ CallsAt(k)[j].filter = j
                      /\ CallsAt(k)[j].store = selStores[k].id
        /\ \A id \in {s.id : s \in Range(selStores)} :
               /\ IncsFor(id) = Cardinality(RejectedPlaces(id))
               /\ RecordsFor(id) = IF collector.present
                                   THEN Cardinality(RejectedPlaces(id)) ELSE 0
        /\ Len(NewCounterIncs) + Len(NewMetricIncs)
             = Cardinality({k \in 1..Len(selStores) : FirstFailing(selStores[k]) # 0})
        /\ Len(NewRecords) <= Len(NewCounterIncs) + Len(NewMetricIncs)

\* a candidate was rejected by the first of two filters: one call, one
\* increment, one record; another candidate passed both
C3_Witness ==
    /\ selOp \in {"source", "unavailable"}
    /\ Len(selFilters) = 2
    /\ Len(selStores) = 2
    /\ collector.present
    /\ FirstFailing(selStores[1]) = 1
    /\ Len(CallsAt(1)) = 1
    /\ FirstFailing(selStores[2]) = 0
    /\ Len(CallsAt(2)) = 2
    /\ Len(NewRecords) = 1
    /\ Len(NewCounterIncs) + Len(NewMetricIncs) = 1

RECURSIVE IsSubsequence(_, _)
IsSubsequence(a, b) ==
    IF a = <<>> THEN TRUE
    ELSE IF b = <<>> THEN FALSE
    ELSE IF Head(a) = Head(b) THEN IsSubsequence(Tail(a), Tail(b))
    ELSE IsSubsequence(a, Tail(b))

\* C4: the returned list is an order-preserving subsequence of the input:
\* only stores of the input, in the input's relative order, every
\* occurrence of a kept store once.
C4_Subsequence ==
    selOp # "none" =>
        /\ IsSubsequence(selResult, selStores)
        /\ \A s \in Range(selStores) : Count(selResult, s) \in {0, Count(selStores, s)}

\* two different stores were kept by a chain that is not empty
C4_Witness ==
    /\ selOp # "none"
    /\ Len(selFilters) > 0
    /\ Len(selResult) = 2
    /\ selResult[1] # selResult[2]

\* C5: SelectTargetStores with an empty chain returns the input list
\* unchanged and records no diagnostic.
C5_EmptyChainIdentity ==
    (selOp = "target" /\ selFilters = <<>>) =>
        /\ selResult = selStores
        /\ selCalls = <<>>
        /\ NewCounterIncs = <<>>
        /\ NewMetricIncs = <<>>
        /\ NewRecords = <<>>

\* an empty chain was given a list of two stores that other chains reject
C5_Witness ==
    /\ selOp = "target"
    /\ selFilters = <<>>
    /\ Len(selStores) = 2
    /\ selResult = selStores
    /\ \A s \in Range(selStores) : s.lowSpace \/ s.busy

\* C6: collector and counter do not influence the decision: the returned
\* list is the one the same call returns with both nil and nothing counted.
C6_ObserversDoNotDecide ==
    selOp # "none" => selResult = PlainSelect(selOp).selected

\* a call with a collector and a counter that already held an increment
\* rejected one store and kept another
C6_Witness ==
    /\ selOp \in {"source", "target"}
    /\ collector.present
    /\ counter.present
    /\ selPrior.counter > 0
    /\ Len(NewCounterIncs) = 1
    /\ Len(NewRecords) = 1
    /\ Len(selResult) = 1

---------------------------------------------------------------------------
(* SpecState: one Source or Target call on a StoreStateFilter with any     *)
(* switches, on a store with up to MaxFaults abnormal attributes; every    *)
(* other count of the store sits exactly at its configured maximum.        *)

PermanentFaults == {"removed", "removing", "down", "paused", "slow", "rejectLeader"}
TemporaryFaults == {"disconnected", "busy", "removeLimit", "addLimit",
                    "sending", "receiving", "pending"}
Faults == PermanentFaults \cup TemporaryFaults

RECURSIVE FaultSets(_)
FaultSets(n) ==
    IF n = 0 THEN {{}}
    ELSE {F \cup G : F \in FaultSets(n - 1), G \in {{}} \cup {{x} : x \in Faults}}

Over(limit, faulty) == IF faulty THEN limit + 1 ELSE limit

SsStore(F) ==
    [id                  |-> 1,
     labels              |-> [zone |-> "z1", host |-> "h1",
                              leader |-> IF "rejectLeader" \in F THEN "reject" ELSE ""],
     removed             |-> "removed" \in F,
     removing            |-> "removing" \in F,
     downTime            |-> Over(DefaultOpt.MaxStoreDownTime, "down" \in F),
     disconnected        |-> "disconnected" \in F,
     busy                |-> "busy" \in F,
     availableRemovePeer |-> "removeLimit" \notin F,
     availableAddPeer    |-> "addLimit" \notin F,
     sendingSnapCount    |-> Over(DefaultOpt.MaxSnapshotCount, "sending" \in F),
     receivingSnapCount  |-> Over(DefaultOpt.MaxSnapshotCount, "receiving" \in F),
     pendingPeerCount    |-> Over(DefaultOpt.MaxPendingPeerCount, "pending" \in F),
     allowLeaderTransfer |-> "paused" \notin F,
     evictedAsSlowStore  |-> "slow" \in F,
     lowSpace            |-> FALSE]

SsStorePool == {SsStore(F) : F \in FaultSets(MaxFaults)}

\* the options: the pending-peer limit on, or off (0)
SsOpts == {DefaultOpt, [DefaultOpt EXCEPT !.MaxPendingPeerCount = 0]}

\* the Reason an instance may hold before a call: the zero value, or what an
\* earlier call left
SsReasons == {excluded, storeStateOK, storeStateBusy}

SsInit ==
    /\ \E tl \in BOOLEAN, mr \in BOOLEAN, sr \in BOOLEAN, ats \in BOOLEAN,
          reason \in SsReasons :
          ssf = [NewStoreStateFilter("test", tl, mr, sr, ats) EXCEPT !.Reason = reason]
    /\ ssOpt \in SsOpts
    /\ ssCall = NoCall

\* a call in direction dir on store returned r
SsReturned(dir, store, r) ==
    /\ ssf' = r.f
    /\ ssCall' = [dir |-> dir, store |-> store, status |-> r.status, ran |-> r.ran,
                  before |-> ssf.Reason, via |-> "call", incs |-> <<>>]
    /\ UNCHANGED <<ssOpt, selVars, cmpVars, plainVars, raceVars>>

CallStateSource ==
    /\ ssCall = NoCall
    /\ \E store \in SsStorePool :
          SsReturned(source, store, FilterSource(ssf, ssOpt, store))

CallStateTarget ==
    /\ ssCall = NoCall
    /\ \E store \in SsStorePool :
          SsReturned(target, store, FilterTarget(ssf, ssOpt, store))

\* a selection function called on <<store>> with the filter as the chain and
\* a new Counter returned sel; status is what the filter returned in it
SsSelected(dir, store, status, sel) ==
    /\ ssf' = sel.env.filters[1]
    /\ ssCall' = [dir |-> dir, store |-> store, status |-> status,
                  ran |-> sel.env.ran, before |-> ssf.Reason, via |-> "select",
                  incs |-> sel.env.counter.incs]
    /\ UNCHANGED <<ssOpt, selVars, cmpVars, plainVars, raceVars>>

CallStateSelectSource ==
    /\ ssCall = NoCall
    /\ \E store \in SsStorePool :
          SsSelected(source, store, FilterSource(ssf, ssOpt, store).status,
                     SelectSourceStores(<<store>>, <<ssf>>, ssOpt, NoCollector,
                                        [present |-> TRUE, incs |-> <<>>], <<>>))

CallStateSelectTarget ==
    /\ ssCall = NoCall
    /\ \E store \in SsStorePool :
          SsSelected(target, store, FilterTarget(ssf, ssOpt, store).status,
                     SelectTargetStores(<<store>>, <<ssf>>, ssOpt, NoCollector,
                                        [present |-> TRUE, incs |-> <<>>], <<>>))

SsNext ==
    \/ CallStateSource
    \/ CallStateTarget
    \/ CallStateSelectSource
    \/ CallStateSelectTarget

InitState == SsInit /\ SelIdle /\ CmpIdle /\ PlainIdle /\ RaceIdle

SpecState == InitState /\ [][SsNext]_vars

---------------------------------------------------------------------------
(* Properties of StoreStateFilter (SpecState).                             *)

\* whether the store of the last call is in the abnormal state named
Suffers(fault) ==
    LET s == ssCall.store
    IN  CASE fault = "removed"      -> s.removed
          [] fault = "removing"     -> s.removing
          [] fault = "down"         -> s.downTime > ssOpt.MaxStoreDownTime
          [] fault = "paused"       -> ~s.allowLeaderTransfer
          [] fault = "slow"         -> s.evictedAsSlowStore
          [] fault = "rejectLeader" -> s.labels.leader = "reject"
          [] fault = "disconnected" -> s.disconnected
          [] fault = "busy"         -> s.busy
          [] fault = "removeLimit"  -> ~s.availableRemovePeer
          [] fault = "addLimit"     -> ~s.availableAddPeer
          [] fault = "sending"      -> s.sendingSnapCount > ssOpt.MaxSnapshotCount
          [] fault = "receiving"    -> s.receivingSnapCount > ssOpt.MaxSnapshotCount
          [] fault = "pending"      -> /\ ssOpt.MaxPendingPeerCount > 0
                                       /\ s.pendingPeerCount > ssOpt.MaxPendingPeerCount

TemporaryStatuses ==
    {statusStoreDisconnected, statusStoreBusy, statusStoreRemoveLimit, statusStoreAddLimit,
     statusStoreSnapshotThrottled, statusStorePendingPeerThrottled}

\* the lasting states that reject in the last call's direction under the
\* filter's switches (the condition table of the filter)
LastingRejections ==
    IF ssCall.dir = source
    THEN IF ssf.TransferLeader THEN {"removed", "down", "paused"} ELSE {}
    ELSE (IF ssf.TransferLeader
          THEN {"removed", "removing", "down", "paused", "slow", "rejectLeader"} ELSE {})
         \cup (IF ssf.MoveRegion THEN {"removed", "removing", "down"} ELSE {})

\* C7 as stated, taken at the filters that run every condition list
\* (TransferLeader and MoveRegion both set): with AllowTemporaryStates the
\* filter never rejects for a temporary state and, as Source or as Target,
\* still rejects a store that is down, removed, removing, carrying the
\* reject-leader label property, paused for leader transfer or evicted.
C7_AsStated ==
    (/\ ssCall.dir # "none"
     /\ ssf.AllowTemporaryStates /\ ssf.TransferLeader /\ ssf.MoveRegion) =>
        /\ ssCall.status \notin TemporaryStatuses
        /\ (\E x \in PermanentFaults : Suffers(x)) => ~IsOK(ssCall.status)

\* C7 (amended): with AllowTemporaryStates set, Source and Target reject a
\* store iff it is in a lasting state that the condition lists of the call
\* contain (Source with TransferLeader: removed, down, paused; Target with
\* TransferLeader: removed, removing, down, paused, slow, reject-leader;
\* Target with MoveRegion: removed, removing, down), never with the status
\* of a temporary state.
C7_TemporaryStatesAllowed ==
    (ssCall.dir # "none" /\ ssf.AllowTemporaryStates) =>
        /\ ssCall.status \notin TemporaryStatuses
        /\ ~IsOK(ssCall.status) <=> \E x \in LastingRejections : Suffers(x)

\* a busy, disconnected store passed every condition of leaderTarget and
\* regionTarget, isBusy and isDisconnected among them
C7_Witness ==
    /\ ssCall.dir = target
    /\ ssf.AllowTemporaryStates /\ ssf.TransferLeader /\ ssf.MoveRegion /\ ~ssf.ScatterRegion
    /\ Suffers("busy") /\ Suffers("disconnected")
    /\ IsOK(ssCall.status)
    /\ \E j \in 1..Len(ssCall.ran) : ssCall.ran[j] = "isBusy"

---------------------------------------------------------------------------
(* SpecCmp: one comparing filter is built by a constructor on arguments of *)
(* the pools; Source and Target calls and selection passes on it follow,   *)
(* MaxCalls of them at most. cmpArgs keeps the constructor's arguments and *)
(* the filter as the constructor returned it; fitCalls counts the calls of *)
(* FitRegion made for each rule-fit filter type.                           *)

\* the location labels a distinctScoreFilter is built on
CmpLabels == {<<"zone">>, <<"zone", "host">>}

\* the replica stores it is built on
CmpReplicas == {<<Store1, Store2, Store3>>, <<Store4, Store1, Store2>>}

\* the placement rule manager: one rule isolating replicas by zone and host
RuleManager1 == [labels |-> <<"zone", "host">>]

\* a fit computed while the region's third peer was on Store4
OldFit1 ==
    FitRegion(RuleManager1, StorePool,
              [Region1 EXCEPT !.peers = <<Peer(11, 1, "voter"), Peer(12, 3, "voter"),
                                          Peer(14, 4, "voter")>>])

CmpInit == SelIdle /\ SsIdle /\ CmpIdle /\ PlainIdle /\ RaceIdle

NoneBuilt == dsf = NoFilter /\ rff = NoFilter /\ rlf = NoFilter

\* the filter built
TheFilter == IF dsf # NoFilter THEN dsf ELSE IF rff # NoFilter THEN rff ELSE rlf

CallsMade == IF cmpCall = NoCall THEN 0 ELSE cmpCall.n

\* the number of FitRegion calls in a log
FitRegions(ran) == Cardinality({j \in 1..Len(ran) : ran[j] = "FitRegion"})

\* fitCalls after a filter of the kind ran the calls of the log
FitCounted(kind, ran) ==
    CASE kind = "ruleFitFilter" ->
           [fitCalls EXCEPT !.ruleFit = @ + FitRegions(ran)]
      [] kind = "ruleLeaderFitFilter" ->
           [fitCalls EXCEPT !.ruleLeader = @ + FitRegions(ran)]
      [] OTHER -> fitCalls

\* a constructor called with args returned b
CmpBuilt(args, b) ==
    /\ dsf' = IF b.f.kind = "distinctScoreFilter" THEN b.f ELSE dsf
    /\ rff' = IF b.f.kind = "ruleFitFilter" THEN b.f ELSE rff
    /\ rlf' = IF b.f.kind = "ruleLeaderFitFilter" THEN b.f ELSE rlf
    /\ fitCalls' = FitCounted(b.f.kind, b.ran)
    /\ cmpArgs' = [args EXCEPT !.built = b.f]
    /\ region' = IF "region" \in DOMAIN args THEN args.region ELSE region
    /\ UNCHANGED <<cmpCall, selVars, ssVars, plainVars, raceVars>>

DistinctArgs(labels, stores, src, policy) ==
    [kind |-> "distinct", labels |-> labels, stores |-> stores, source |-> src,
     policy |-> policy, built |-> NoFilter]

BuildLocationSafeguard ==
    /\ NoneBuilt
    /\ \E labels \in CmpLabels, stores \in CmpReplicas, src \in StorePool :
          CmpBuilt(DistinctArgs(labels, stores, src, locationSafeguard),
                   Built(NewLocationSafeguard("test", labels, stores, src), <<>>))

BuildLocationImprover ==
    /\ NoneBuilt
    /\ \E labels \in CmpLabels, stores \in CmpReplicas, src \in StorePool :
          CmpBuilt(DistinctArgs(labels, stores, src, locationImprove),
                   Built(NewLocationImprover("test", labels, stores, src), <<>>))

BuildPlacementSafeguard ==
    /\ NoneBuilt
    /\ \E enabled \in BOOLEAN, src \in StorePool, oldFit \in {NilFit, OldFit1} :
          CmpBuilt(
            IF enabled
            THEN [kind |-> "ruleFit", oldFit |-> oldFit, oldStoreID |-> src.id,
                  region |-> region, built |-> NoFilter]
            ELSE DistinctArgs(DefaultOpt.LocationLabels,
                              GetRegionStores(StorePool, region), src,
                              locationSafeguard),
            NewPlacementSafeguard("test",
              [DefaultOpt EXCEPT !.PlacementRulesEnabled = enabled],
              StorePool, RuleManager1, region, src, oldFit))

\* the regions a ruleLeaderFitFilter is built for: Region1, and a region
\* with peers on Store1, Store2 and Store4
CmpRegions ==
    {Region1,
     [Region1 EXCEPT !.id = 2,
                     !.peers = <<Peer(21, 1, "voter"), Peer(22, 2, "voter"),
                                 Peer(24, 4, "voter")>>,
                     !.leader = Peer(21, 1, "voter")]}

BuildRuleLeaderFitFilter ==
    /\ NoneBuilt
    /\ \E src \in StorePool, allowMoveLeader \in BOOLEAN, r \in CmpRegions :
          CmpBuilt([kind |-> "ruleLeader", srcLeaderStoreID |-> src.id,
                    allowMoveLeader |-> allowMoveLeader, region |-> r,
                    built |-> NoFilter],
                   newRuleLeaderFitFilter("test", StorePool, RuleManager1, r,
                                          src.id, allowMoveLeader))

\* a call on the filter left it as f, having run the calls of ran; a rule-fit
\* filter holds the region by pointer, so the region is as the call left it
CmpCalled(call, f, ran) ==
    /\ dsf' = IF dsf # NoFilter THEN f ELSE dsf
    /\ rff' = IF rff # NoFilter THEN f ELSE rff
    /\ rlf' = IF rlf # NoFilter THEN f ELSE rlf
    /\ fitCalls' = FitCounted(f.kind, ran)
    /\ cmpCall' = call
    /\ region' = IF "region" \in DOMAIN f THEN f.region ELSE region
    /\ UNCHANGED <<cmpArgs, selVars, ssVars, plainVars, raceVars>>

\* Source or Target on store returned r
CmpReturned(dir, store, r) ==
    CmpCalled([dir |-> dir, store |-> store, status |-> r.status, ran |-> r.ran,
               n |-> CallsMade + 1],
              r.f, r.ran)

CallCmpSource ==
    /\ ~NoneBuilt
    /\ CallsMade < MaxCalls
    /\ \E store \in StorePool :
          CmpReturned(source, store, FilterSource(TheFilter, DefaultOpt, store))

CallCmpTarget ==
    /\ ~NoneBuilt
    /\ CallsMade < MaxCalls
    /\ \E store \in StorePool :
          CmpReturned(target, store, FilterTarget(TheFilter, DefaultOpt, store))

\* SelectTargetStores(stores, [the filter], ...) returned r
CmpSelected(stores, r) ==
    CmpCalled([dir |-> "select", stores |-> stores, selected |-> r.selected,
               incs |-> r.env.counter.incs, ran |-> r.env.ran,
               n |-> CallsMade + 1],
              r.env.filters[1], r.env.ran)

\* a selection pass with the filter as the chain and a new Counter
CallCmpSelect ==
    /\ ~NoneBuilt
    /\ CallsMade < MaxCalls
    /\ \E stores \in SeqsUpTo(StorePool, MaxStores) :
          CmpSelected(stores,
                      SelectTargetStores(stores, <<TheFilter>>, DefaultOpt, NoCollector,
                                         [present |-> TRUE, incs |-> <<>>], <<>>))

CmpNext ==
    \/ BuildLocationSafeguard
    \/ BuildLocationImprover
    \/ BuildPlacementSafeguard
    \/ BuildRuleLeaderFitFilter
    \/ CallCmpSource
    \/ CallCmpTarget
    \/ CallCmpSelect

SpecCmp == CmpInit /\ [][CmpNext]_vars

---------------------------------------------------------------------------
(* Properties of the distinctScoreFilter (under SpecCmp).                  *)

\* the two stores carry the same value for every one of the labels
SameTuple(a, b, labels) ==
    \A i \in 1..Len(labels) : GetLabelValue(a, labels[i]) = GetLabelValue(b, labels[i])

\* the last call was Target on a distinctScoreFilter
DistinctTargetCalled == dsf # NoFilter /\ cmpCall.dir = target

\* the replica stores of the constructor call without the source store
RestOfReplicas == WithoutStore(cmpArgs.stores, cmpArgs.source.id)

\* the score of a store against them
ScoreAgainstRest(store) == DistinctScore(cmpArgs.labels, RestOfReplicas, store)

\* C8 as stated: a safeguard filter's Target rejects every candidate that
\* carries the source store's value for each location label, the source store
\* itself excepted.
C8_AsStated ==
    (/\ DistinctTargetCalled
     /\ dsf.policy = locationSafeguard
     /\ SameTuple(cmpCall.store, cmpArgs.source, dsf.labels)
     /\ cmpCall.store.id # cmpArgs.source.id)
    => ~IsOK(cmpCall.status)

\* C8, amended: a Target candidate that carries the source store's value for
\* each location label scores exactly the baseline, whether it is the source
\* store, one of the replica stores or neither; the safeguard policy accepts
\* it and the improve policy rejects it.
C8_SameTupleScoresBaseline ==
    (/\ DistinctTargetCalled
     /\ SameTuple(cmpCall.store, cmpArgs.source, dsf.labels))
    => /\ DistinctScore(dsf.labels, dsf.stores, cmpCall.store) = dsf.safeScore
       /\ IsOK(cmpCall.status) <=> dsf.policy = locationSafeguard

\* a safeguard filter on zone and host, its source Store1, returned OK for
\* Store3, which shares zone and host with Store1
C8_Witness ==
    /\ DistinctTargetCalled
    /\ dsf.policy = locationSafeguard
    /\ dsf.labels = <<"zone", "host">>
    /\ cmpArgs.source = Store1
    /\ cmpCall.store = Store3
    /\ SameTuple(Store3, Store1, dsf.labels)
    /\ IsOK(cmpCall.status)

\* C9: Target returns OK iff the candidate's distinct score against the
\* replica stores without the source store is >= (safeguard) or > (improve)
\* the source store's score against the same stores; a candidate the improve
\* policy accepts is accepted by the safeguard filter built on the same
\* arguments; Source returns OK.
C9_ScoreAgainstBaseline ==
    /\ DistinctTargetCalled =>
         /\ IsOK(cmpCall.status) <=>
              IF cmpArgs.policy = locationSafeguard
              THEN ScoreAgainstRest(cmpCall.store) >= ScoreAgainstRest(cmpArgs.source)
              ELSE ScoreAgainstRest(cmpCall.store) > ScoreAgainstRest(cmpArgs.source)
         /\ (cmpArgs.policy = locationImprove /\ IsOK(cmpCall.status)) =>
              IsOK(distinctScoreTarget(
                     NewLocationSafeguard("test", cmpArgs.labels, cmpArgs.stores,
                                          cmpArgs.source),
                     DefaultOpt, cmpCall.store))
    /\ (dsf # NoFilter /\ cmpCall.dir = source) => IsOK(cmpCall.status)

\* an improve filter accepted a candidate scoring above the baseline, and
\* the baseline is not zero
C9_Witness ==
    /\ DistinctTargetCalled
    /\ cmpArgs.policy = locationImprove
    /\ IsOK(cmpCall.status)
    /\ ScoreAgainstRest(cmpArgs.source) > 0
    /\ ScoreAgainstRest(cmpCall.store) > ScoreAgainstRest(cmpArgs.source)

---------------------------------------------------------------------------
(* Properties of the comparing filters' baseline (under SpecCmp).          *)

\* what a comparing filter compares candidates with
Baseline(f) ==
    CASE f.kind = "distinctScoreFilter" ->
           [safeScore |-> f.safeScore, stores |-> f.stores]
      [] f.kind = "ruleFitFilter" ->
           [oldFit |-> f.oldFit, srcStore |-> f.srcStore, region |-> f.region]
      [] f.kind = "ruleLeaderFitFilter" ->
           [oldFit |-> f.oldFit, srcStore |-> f.srcLeaderStoreID, region |-> f.region]

\* C10: after any Source and Target calls and selection passes, the filter's
\* safeScore and stores (distinctScoreFilter) or oldFit, source store id and
\* region (ruleFitFilter, ruleLeaderFitFilter) are those the constructor
\* set; FitRegion has been called once for a ruleLeaderFitFilter, once for a
\* ruleFitFilter built without a fit and never for one built with a fit, and
\* no Target call or selection pass called it.
C10_BaselineFixed ==
    /\ ~NoneBuilt => Baseline(TheFilter) = Baseline(cmpArgs.built)
    /\ rff # NoFilter =>
         /\ fitCalls.ruleFit = (IF cmpArgs.oldFit = NilFit THEN 1 ELSE 0)
         /\ cmpArgs.oldFit # NilFit => rff.oldFit = cmpArgs.oldFit
         /\ rff.srcStore = cmpArgs.oldStoreID /\ rff.region = cmpArgs.region
    /\ rlf # NoFilter =>
         /\ fitCalls.ruleLeader = 1
         /\ rlf.srcLeaderStoreID = cmpArgs.srcLeaderStoreID
         /\ rlf.region = cmpArgs.region
    /\ rff = NoFilter => fitCalls.ruleFit = 0
    /\ rlf = NoFilter => fitCalls.ruleLeader = 0
    /\ cmpCall # NoCall => FitRegions(cmpCall.ran) = 0

\* a ruleFitFilter built without a fit has been through two calls, the last
\* a selection pass in which Target rejected a candidate, and FitRegion has
\* been called once
C10_Witness ==
    /\ rff # NoFilter
    /\ cmpArgs.oldFit = NilFit
    /\ fitCalls.ruleFit = 1
    /\ cmpCall.dir = "select"
    /\ cmpCall.n >= 2
    /\ Len(cmpCall.selected) < Len(cmpCall.stores)
    /\ \E j \in 1..Len(cmpCall.ran) : cmpCall.ran[j] = "Replace"

---------------------------------------------------------------------------
(* SpecPlain: an isolationFilter or a specialUseFilter is built on         *)
(* arguments of the pools, well-formed or not, and Source or Target is     *)
(* called on it once.                                                      *)

\* isolation levels asked for: "rack" is no location label
IsoLevels == {"zone", "host", "rack"}

\* location-label lists: none, zone, zone and host
IsoLabelLists == {<<>>, <<"zone">>, <<"zone", "host">>}

\* allowUses lists: none, either special use, both, and a use that is none
\* of the special uses
AllowUsesLists ==
    {<<>>, <<SpecialUseHotRegion>>, <<SpecialUseReserved>>,
     <<SpecialUseHotRegion, SpecialUseReserved>>, <<"other">>}

\* Store1 labelled with the special use, low on space or not
UseStore(use, lowSpace) ==
    [Store1 EXCEPT !.labels = [zone |-> "z1", host |-> "h1", leader |-> "",
                               specialUse |-> use],
                   !.lowSpace = lowSpace]

\* the stores Source and Target are called on
PlainStorePool ==
    StorePool \cup {[Store2 EXCEPT !.lowSpace = TRUE]}
              \cup {UseStore(use, lowSpace) :
                      use \in {SpecialUseHotRegion, SpecialUseReserved, "other"},
                      lowSpace \in BOOLEAN}

PlainInit == SelIdle /\ SsIdle /\ CmpIdle /\ PlainIdle /\ RaceIdle

\* a constructor called with args returned f, or panicked
PlainBuilt(args, f) ==
    /\ plf' = f
    /\ plArgs' = args
    /\ UNCHANGED <<plCall, selVars, ssVars, cmpVars, raceVars>>

BuildIsolationFilter ==
    /\ plf = NoFilter
    /\ \E isolationLevel \in IsoLevels, locationLabels \in IsoLabelLists,
          regionStores \in SeqsUpTo(StorePool, MaxStores) :
          PlainBuilt([kind |-> "isolation", isolationLevel |-> isolationLevel,
                      locationLabels |-> locationLabels, regionStores |-> regionStores],
                     NewIsolationFilter("test", isolationLevel, locationLabels,
                                        regionStores))

BuildSpecialUseFilter ==
    /\ plf = NoFilter
    /\ \E allowUses \in AllowUsesLists :
          PlainBuilt([kind |-> "specialUse", allowUses |-> allowUses],
                     NewSpecialUseFilter("test", allowUses))

\* Source or Target on store returned r
PlainReturned(dir, store, r) ==
    /\ plf' = r.f
    /\ plCall' = [dir |-> dir, store |-> store, status |-> r.status]
    /\ UNCHANGED <<plArgs, selVars, ssVars, cmpVars, raceVars>>

\* a filter was returned and not yet called
PlainCallable == plf # NoFilter /\ plf # Panicked /\ plCall = NoCall

CallPlainSource ==
    /\ PlainCallable
    /\ \E store \in PlainStorePool :
          PlainReturned(source, store, FilterSource(plf, DefaultOpt, store))

CallPlainTarget ==
    /\ PlainCallable
    /\ \E store \in PlainStorePool :
          PlainReturned(target, store, FilterTarget(plf, DefaultOpt, store))

PlainNext ==
    \/ BuildIsolationFilter
    \/ BuildSpecialUseFilter
    \/ CallPlainSource
    \/ CallPlainTarget

SpecPlain == PlainInit /\ [][PlainNext]_vars

---------------------------------------------------------------------------
(* Properties of the isolationFilter (under SpecPlain).                    *)

\* the isolation level is one of the location labels
LevelFound ==
    \E i \in 1..Len(plArgs.locationLabels) : plArgs.locationLabels[i] = plArgs.isolationLevel

\* the labels from the first down to the isolation level, down to the first
\* only when the level is none of them
LabelsDownToLevel ==
    IF LevelFound
    THEN SubSeq(plArgs.locationLabels, 1,
                CHOOSE i \in 1..Len(plArgs.locationLabels) :
                  /\ plArgs.locationLabels[i] = plArgs.isolationLevel
                  /\ \A j \in 1..(i - 1) : plArgs.locationLabels[j] # plArgs.isolationLevel)
    ELSE SubSeq(plArgs.locationLabels, 1, 1)

\* an isolationFilter was built and called in direction dir
IsolationCalled(dir) ==
    plArgs.kind = "isolation" /\ plf # Panicked /\ plCall.dir = dir

\* C11: Target of an isolationFilter returns not-match-isolation iff the
\* filter was built from no replica store, or the candidate carries, for each
\* location label from the first down to the isolation level, the value of
\* one and the same replica store; it returns OK otherwise. Source returns OK.
C11_IsolationTarget ==
    /\ IsolationCalled(target) =>
         /\ plCall.status \in {statusOK, statusStoreNotMatchIsolation}
         /\ plCall.status = statusStoreNotMatchIsolation <=>
              \/ plArgs.regionStores = <<>>
              \/ \E k \in 1..Len(plArgs.regionStores) :
                    SameTuple(plCall.store, plArgs.regionStores[k], LabelsDownToLevel)
    /\ IsolationCalled(source) => IsOK(plCall.status)

\* built on zone and host with level host from Store1 and Store2, the filter
\* rejected Store3 (on the host of Store1)
C11_Witness ==
    /\ IsolationCalled(target)
    /\ plArgs.isolationLevel = "host"
    /\ plArgs.locationLabels = <<"zone", "host">>
    /\ plArgs.regionStores = <<Store1, Store2>>
    /\ plCall.store = Store3
    /\ plCall.status = statusStoreNotMatchIsolation

\* C12 as stated: NewIsolationFilter completes whatever the configuration,
\* and with an isolation level that is no location label (the label list
\* empty and the replica stores not, included) the filter is the one built
\* with the first location label as the level.
C12_AsStated ==
    plArgs.kind = "isolation" =>
      /\ plf # Panicked
      /\ (~LevelFound /\ plArgs.locationLabels # <<>>) =>
           plf = NewIsolationFilter("test", plArgs.locationLabels[1],
                                    plArgs.locationLabels, plArgs.regionStores)

---------------------------------------------------------------------------
(* Properties of the rule-fit filters (under SpecCmp).                     *)

\* the fit a ruleFitFilter compares with, by the constructor's arguments
RuleFitBaseline ==
    IF cmpArgs.oldFit = NilFit
    THEN FitRegion(RuleManager1, StorePool, cmpArgs.region)
    ELSE cmpArgs.oldFit

\* C13: Target of a ruleFitFilter returns OK iff the baseline fit's
\* Replace(source store id, candidate, region) is true and not-match-rule
\* otherwise; after the call, and after a selection pass, the region has the
\* peers, the leader and the key range it had at construction. Source
\* returns OK.
C13_RuleFitTarget ==
    /\ (rff # NoFilter /\ cmpCall.dir = target) =>
         cmpCall.status =
           (IF Replace(RuleFitBaseline, cmpArgs.oldStoreID, cmpCall.store, cmpArgs.region)
            THEN statusOK ELSE statusStoreNotMatchRule)
    /\ (rff # NoFilter /\ cmpCall.dir = source) => IsOK(cmpCall.status)
    /\ rff # NoFilter =>
         /\ region = cmpArgs.region
         /\ rff.region = cmpArgs.region

\* with a fit of peers on Store1, Store3 and Store4 as the baseline and
\* Store3 as the source, Target returned OK for Store2 and the region is
\* Region1 still
C13_Witness ==
    /\ rff # NoFilter
    /\ cmpCall.dir = target
    /\ cmpArgs.oldFit = OldFit1
    /\ cmpArgs.oldStoreID = 3
    /\ cmpCall.store = Store2
    /\ IsOK(cmpCall.status)
    /\ region = Region1

\* the candidate of the last call holds a peer of the region
HoldsPeer == GetStorePeer(cmpArgs.region, cmpCall.store.id) # NilPeer

\* C14: Target of a ruleLeaderFitFilter returns not-match-rule, without a
\* call of the rule-fit engine, for a candidate that holds no peer of the
\* region when allowMoveLeader is false; in every other case it returns OK
\* iff Replace(source leader store id, candidate, region) of the baseline fit
\* is true, and not-match-rule otherwise.
C14_RuleLeaderFitTarget ==
    (rlf # NoFilter /\ cmpCall.dir = target) =>
      IF ~HoldsPeer /\ ~cmpArgs.allowMoveLeader
      THEN cmpCall.status = statusStoreNotMatchRule /\ cmpCall.ran = <<>>
      ELSE /\ cmpCall.ran = <<"Replace">>
           /\ cmpCall.status =
                (IF Replace(FitRegion(RuleManager1, StorePool, cmpArgs.region),
                            cmpArgs.srcLeaderStoreID, cmpCall.store, cmpArgs.region)
                 THEN statusOK ELSE statusStoreNotMatchRule)

\* allowMoveLeader false: Store3 holds no peer of the region on Store1,
\* Store2 and Store4 and was rejected, though replacing Store1 by it would
\* keep the fit
C14_Witness ==
    /\ rlf # NoFilter
    /\ cmpCall.dir = target
    /\ ~cmpArgs.allowMoveLeader
    /\ cmpArgs.srcLeaderStoreID = 1
    /\ cmpCall.store = Store3
    /\ ~HoldsPeer
    /\ cmpCall.status = statusStoreNotMatchRule
    /\ Replace(rlf.oldFit, 1, Store3, region)

---------------------------------------------------------------------------
(* Properties of the specialUseFilter (under SpecPlain).                   *)

\* a specialUseFilter was built and called
SpecialUseCalled == plArgs.kind = "specialUse" /\ plCall.dir \in {source, target}

\* the special use the called store is labelled with, "" for none
UseOfStore == GetLabelValue(plCall.store, SpecialUseKey)

\* the use is in the allowUses the filter was built with
Allowed(use) == \E i \in 1..Len(plArgs.allowUses) : plArgs.allowUses[i] = use

---------------------------------------------------------------------------
(* Properties of the order of the conditions and of Reason (under          *)
(* SpecState).                                                             *)

\* the conditions of the last call in the order stated for its direction
StatedOrder ==
    IF ssCall.dir = source
    THEN (IF ssf.TransferLeader
          THEN <<"isRemoved", "isDown", "pauseLeaderTransfer", "isDisconnected">>
          ELSE <<>>)
         \o (IF ssf.MoveRegion
             THEN <<"isBusy", "exceedRemoveLimit", "tooManySnapshots">>
             ELSE <<>>)
    ELSE (IF ssf.TransferLeader
          THEN <<"isRemoved", "isRemoving", "isDown", "pauseLeaderTransfer",
                 "slowStoreEvicted", "isDisconnected", "isBusy",
                 "hasRejectLeaderProperty">>
          ELSE <<>>)
         \o (IF ~ssf.MoveRegion THEN <<>>
             ELSE IF ssf.ScatterRegion
             THEN <<"isRemoved", "isRemoving", "isDown", "isDisconnected", "isBusy">>
             ELSE <<"isRemoved", "isRemoving", "isDown", "isDisconnected", "isBusy",
                    "exceedAddLimit", "tooManySnapshots", "tooManyPendingPeers">>)

\* what the condition returns for the store of the last call
StatusOfCondition(name) == Condition(name, ssf, ssOpt, ssCall.store).status

\* the places of StatedOrder whose condition fails
FailingPlaces == {i \in 1..Len(StatedOrder) : ~IsOK(StatusOfCondition(StatedOrder[i]))}

\* C16: Source and Target return the status of the first failing condition of
\* leaderSource then regionSource, and of leaderTarget then
\* scatterRegionTarget or regionTarget, each list under its switch; they
\* return OK when no condition of these fails, so when no switch is set.
C16_FirstFailingCondition ==
    ssCall.dir \in {source, target} =>
      ssCall.status = (IF FailingPlaces = {} THEN statusOK
                       ELSE StatusOfCondition(StatedOrder[Min(FailingPlaces)]))

\* Source with TransferLeader and MoveRegion returned store-down for a busy
\* store that is down: isDown comes before isBusy
C16_Witness ==
    /\ ssCall.dir = source
    /\ ssf.TransferLeader /\ ssf.MoveRegion /\ ~ssf.AllowTemporaryStates
    /\ Suffers("down") /\ Suffers("busy")
    /\ ssCall.status = statusStoreDown

\* the reason tag a condition writes when it rejects
ReasonOf(name) ==
    CASE name = "isRemoved"               -> storeStateTombstone
      [] name = "isDown"                  -> storeStateDown
      [] name = "isRemoving"              -> storeStateOffline
      [] name = "pauseLeaderTransfer"     -> storeStatePauseLeader
      [] name = "slowStoreEvicted"        -> storeStateSlow
      [] name = "isDisconnected"          -> storeStateDisconnected
      [] name = "isBusy"                  -> storeStateBusy
      [] name = "exceedRemoveLimit"       -> storeStateExceedRemoveLimit
      [] name = "exceedAddLimit"          -> storeStateExceedAddLimit
      [] name = "tooManySnapshots"        -> storeStateTooManySnapshot
      [] name = "tooManyPendingPeers"     -> storeStateTooManyPendingPeer
      [] name = "hasRejectLeaderProperty" -> storeStateRejectLeader

\* C17: with one caller at a time, a call that rejects has evaluated the
\* conditions up to the rejecting one and none after it, and Type() read
\* after the call is the rejecting condition's reason tag; a call that
\* evaluated a condition and returned OK leaves Reason storeStateOK; the type
\* a selection function hands to the counter for a rejection is the
\* rejecting condition's tag.
C17_ReasonOfRejection ==
    ssCall.dir \in {source, target} =>
      /\ ~IsOK(ssCall.status) =>
           /\ ssCall.ran = SubSeq(StatedOrder, 1, Min(FailingPlaces))
           /\ FilterType(ssf) = ReasonOf(StatedOrder[Min(FailingPlaces)])
           /\ ssCall.via = "select" =>
                /\ Len(ssCall.incs) = 1
                /\ ssCall.incs[1].type = ReasonOf(StatedOrder[Min(FailingPlaces)])
      /\ (IsOK(ssCall.status) /\ ssCall.ran # <<>>) =>
           /\ ssf.Reason = storeStateOK
           /\ ssCall.incs = <<>>

\* a store that is down and otherwise nominal, as leaderTarget in
\* SelectTargetStores: status store-down, Reason and the counter's type
\* storeStateDown, pauseLeaderTransfer not evaluated
C17_Witness ==
    /\ ssCall.dir = target /\ ssCall.via = "select"
    /\ ssf.TransferLeader /\ ~ssf.MoveRegion
    /\ \A x \in Faults : Suffers(x) <=> x = "down"
    /\ ssCall.status = statusStoreDown
    /\ ssf.Reason = storeStateDown
    /\ ssCall.incs[1].type = storeStateDown
    /\ ssCall.ran = <<"isRemoved", "isRemoving", "isDown">>
    /\ ssCall.before # storeStateDown

---------------------------------------------------------------------------
(* SpecRace: two goroutines each run SelectTargetStores on one store with  *)
(* the same StoreStateFilter instance as the chain and a Counter of their  *)
(* own. Nothing orders their accesses to Reason: every condition's write   *)
(* and the read of Type() in the closure is a step of its own, and a read  *)
(* returns what the latest write of either goroutine left.                 *)

Goroutines == {1, 2}

\* the shared instance: TransferLeader set, MoveRegion and
\* AllowTemporaryStates set or not
RaceFilters ==
    {NewStoreStateFilter("test", TRUE, mr, FALSE, ats) : mr \in BOOLEAN, ats \in BOOLEAN}

\* the stores: nominal, down, busy, busy and down
RaceStores == {SsStore({}), SsStore({"down"}), SsStore({"busy"}), SsStore({"busy", "down"})}

\* the conditions Target evaluates, in order, as long as none rejects
TargetConditions(f) ==
    (IF f.TransferLeader THEN ConditionFuncs(leaderTarget) ELSE <<>>)
      \o (IF f.MoveRegion /\ f.ScatterRegion
          THEN ConditionFuncs(scatterRegionTarget) ELSE <<>>)
      \o (IF f.MoveRegion /\ ~f.ScatterRegion
          THEN ConditionFuncs(regionTarget) ELSE <<>>)

\* a goroutine about to call filter.Target(opt, store)
Started(store) ==
    [store      |-> store,
     pc         |-> "target",    \* in Target; then "returned", then "done"
     k          |-> 1,           \* the next condition of TargetConditions
     status     |-> statusOK,    \* what Target returned, once pc is not "target"
     rejectedBy |-> "none",      \* the tag the rejecting condition wrote
     counter    |-> [present |-> TRUE, incs |-> <<>>],
     selected   |-> <<>>]

RaceInit ==
    /\ SelIdle /\ SsIdle /\ CmpIdle /\ PlainIdle
    /\ raceF \in RaceFilters
    /\ \E s1 \in RaceStores, s2 \in RaceStores : raceProc = <<Started(s1), Started(s2)>>

\* goroutine g after its condition k returned v
AfterCondition(g, v, last) ==
    IF ~IsOK(v.status)
    THEN [raceProc[g] EXCEPT !.pc = "returned", !.status = v.status,
                             !.rejectedBy = v.Reason]
    ELSE IF last
    THEN [raceProc[g] EXCEPT !.pc = "returned", !.status = statusOK]
    ELSE [raceProc[g] EXCEPT !.k = @ + 1]

\* the condition returned v: Reason is written, the goroutine moves on
ConditionReturned(g, v, last) ==
    /\ raceF' = [raceF EXCEPT !.Reason = v.Reason]
    /\ raceProc' = [raceProc EXCEPT ![g] = AfterCondition(g, v, last)]
    /\ UNCHANGED <<selVars, ssVars, cmpVars, plainVars>>

\* a goroutine evaluates the next condition of Target
RaceCondition ==
    \E g \in Goroutines :
      /\ raceProc[g].pc = "target"
      /\ ConditionReturned(g,
           Condition(TargetConditions(raceF)[raceProc[g].k], raceF, DefaultOpt,
                     raceProc[g].store),
           raceProc[g].k = Len(TargetConditions(raceF)))

\* the closure returned c for goroutine g
ClosureReturned(g, c) ==
    /\ raceProc' = [raceProc EXCEPT ![g] =
                      [@ EXCEPT !.pc = "done",
                                !.counter = c.env.counter,
                                !.selected = IF c.ret THEN <<raceProc[g].store>> ELSE <<>>]]
    /\ UNCHANGED <<raceF, selVars, ssVars, cmpVars, plainVars>>

\* Target has returned to the closure of SelectTargetStores, which goes on:
\* on a rejection it reads filter.Type(), the Reason of the instance as it
\* is by now
RaceClosure ==
    \E g \in Goroutines :
      /\ raceProc[g].pc = "returned"
      /\ ClosureReturned(g,
           TargetReturned(Env(<<raceF>>, NoCollector, raceProc[g].counter, <<>>),
                          1, raceProc[g].store, 1,
                          Returned(raceProc[g].status, raceF, <<>>)))

RaceNext ==
    \/ RaceCondition
    \/ RaceClosure

SpecRace == RaceInit /\ [][RaceNext]_vars

\* the reason tags the conditions write
ReasonTags ==
    {storeStateOK, storeStateTombstone, storeStateDown, storeStateOffline,
     storeStatePauseLeader, storeStateSlow, storeStateDisconnected, storeStateBusy,
     storeStateExceedRemoveLimit, storeStateExceedAddLimit, storeStateTooManySnapshot,
     storeStateTooManyPendingPeer, storeStateRejectLeader}

\* C18: with one StoreStateFilter shared by two concurrent selection calls,
\* the status Target returns to each call and the list each call selects
\* are those of the call run alone; each rejection makes one increment, whose
\* type is a reason tag written by one of the two calls.
C18_RaceLeavesResult ==
    \A g \in DOMAIN raceProc :
      /\ raceProc[g].pc # "target" =>
           raceProc[g].status = StoreStateTarget(raceF, DefaultOpt, raceProc[g].store).status
      /\ raceProc[g].pc = "done" =>
           /\ raceProc[g].selected =
                SelectTargetStores(<<raceProc[g].store>>, <<raceF>>, DefaultOpt, NoCollector,
                                   NoCounter, <<>>).selected
           /\ Len(raceProc[g].counter.incs) = (IF IsOK(raceProc[g].status) THEN 0 ELSE 1)
           /\ \A j \in 1..Len(raceProc[g].counter.incs) :
                raceProc[g].counter.incs[j].type \in ReasonTags

\* goroutine 1 had its store rejected by isDown, and the type it handed to
\* its counter is storeStateOK, written meanwhile by goroutine 2, whose
\* store passed; goroutine 1 selected nothing all the same
C18_Witness ==
    /\ raceProc # <<>>
    /\ raceProc[1].pc = "done" /\ raceProc[2].pc = "done"
    /\ raceProc[1].status = statusStoreDown
    /\ raceProc[1].rejectedBy = storeStateDown
    /\ raceProc[1].counter.incs[1].type = storeStateOK
    /\ raceProc[1].selected = <<>>
    /\ IsOK(raceProc[2].status)
    /\ raceProc[2].selected = <<raceProc[2].store>>

====
